---- MODULE Spec2Model ----
(***************************************************************************)
(* Vector-space retrieval pipeline of Sistema-de-Recuperacao-em-Memoria.   *)
(*                                                                         *)
(* Four batch components are modelled,, each as the state machine of one   *)
(* instance on which run() may be called again and again:                  *)
(*   - QueryProcessor (src/src/modules/proc_consultas.py): normalizes the  *)
(*                  queries of an XML file and lists the expected results  *)
(*   - InvertedListGenerator (src/src/modules/lista_invertida.py): builds  *)
(*                  the inverted index of the abstracts of an XML file     *)
(*   - Indexer      (src/src/modules/indexador.py): tallies an inverted    *)
(*                  index and computes a tf-idf score per (document, term) *)
(*   - SearchEngine (src/src/modules/buscador.py): reads a model and a     *)
(*                  query set and ranks every document for every query     *)
(*                                                                         *)
(* Python dicts keep insertion order; a dict is modelled as a sequence of  *)
(* [k, v] records in insertion order.  Floating-point values are modelled  *)
(* by exact arithmetic: a logarithm and a weight are fixed-point numbers   *)
(* of hundredths, small enough for the products of the cosine; a cosine is *)
(* the pair (sign, square) of the real number computed.                    *)
(***************************************************************************)
EXTENDS Integers, Sequences, FiniteSets, TLC

\* ------------------------------------------------------------------ bounds
\* longest posting list of an index row
MaxPost == 2
\* document ids of the inverted index are 1..MaxDoc
MaxDoc == 2
\* terms of the index and of the model
Terms == {"A", "B"}
\* rows of an index file: as many as there are terms (a term may have several)
MaxIndexRows == Cardinality(Terms)

\* longest abstract of a record of the XML file, in words
MaxWords == 2
\* records of an XML file: as many as rows of an index file
MaxRecords == MaxIndexRows
\* calls of QueryProcessor.run on one instance
MaxRuns == 2

\* ------------------------------------------------------------ dict helpers
Has(d, key) == \E i \in DOMAIN d : d[i].k = key

Get(d, key) == d[CHOOSE i \in DOMAIN d : d[i].k = key].v

\* d[key] = val : an existing key keeps its position, a new key goes last
Put(d, key, val) ==
  IF Has(d, key)
  THEN [i \in DOMAIN d |-> IF d[i].k = key THEN [k |-> key, v |-> val] ELSE d[i]]
  ELSE Append(d, [k |-> key, v |-> val])

Keys(d) == {d[i].k : i \in DOMAIN d}

\* defaultdict access d[key]: the default when the key is absent
GetOr(d, key, default) == IF Has(d, key) THEN Get(d, key) ELSE default

RECURSIVE SumValues(_)
\* sum(terms.values())
SumValues(d) == IF d = <<>> THEN 0 ELSE d[1].v + SumValues(Tail(d))

SeqUpTo(S, n) == UNION {[1..k -> S] : k \in 0..n}

\* ---------------------------------------------------------------- numbers
RECURSIVE Gcd(_, _)
Gcd(a, b) == IF b = 0 THEN a ELSE Gcd(b, a % b)

\* ln(k) in hundredths, k = 1..12
LnTable == <<0, 69, 110, 139, 161, 179, 195, 208, 220, 230, 240, 248>>

\* str(x), the text csv.writer puts in a file for a number
Repr(x) == ToString(x)

\* math.log(p / q) for integers p, q >= 1: the quotient p / q is formed first,
\* so equal quotients give equal logarithms
MathLog(p, q) ==
  LET g == Gcd(p, q) IN LnTable[p \div g] - LnTable[q \div g]

\* ------------------------------------------------------------------- state
VARIABLES
  \* environment of the Indexer: its configuration file and the index file
  idx_config,               \* "ok" | "missing" | "no_leia"
  fs_index,               \* [exists, rows]: rows of [term, docs, ok]
  fs_model,                 \* [exists, rows]: rows of [doc, term, score, ok]
  \* the Indexer instance
  input_file,               \* None or "index"
  output_file,              \* None or "model"
  document_terms,           \* dict doc_id -> dict term -> raw count
  term_document_frequency,  \* dict term -> int
  total_documents,          \* int
  \* position of Indexer.run and the locals of the stage it is in
  idx_pc,
  idx_row, idx_ent,         \* process_documents: row and entry being read
  idx_doc, idx_term,        \* calculate_tf_idf: position in document_terms
  tf, idf,                  \* calculate_tf_idf: locals of the last iteration
  tf_idf_scores,            \* calculate_tf_idf: dict doc_id -> dict term -> score
  idx_exc,                  \* exception that ended the run, or "none"
  idx_log                   \* error messages logged by the current run

\* the SearchEngine: its environment, its instance, the position of its run
VARIABLES
  se_config,                \* "ok" | "missing" | "no_modelo"
  fs_queries,               \* [exists, rows]: rows of [id, text, ok] after the header
  fs_results,               \* rows [query, rank, doc, score] of the results file
  model_file,               \* None or "model"
  queries_file,             \* None or "queries"
  results_file,             \* None or "results"
  unique_terms,             \* list of terms
  model,                    \* dict doc_id -> dict term -> score
  queries,                  \* dict query_id -> list of words
  results,                  \* dict query_id -> list of <<doc_id, score>>
  query_vectors,            \* local of __process_data: dict query_id -> vector
  document_vectors,         \* local of __process_data: dict doc_id -> vector
  se_pc,
  se_exc,                   \* exception that ended the run, or "none"
  se_log                    \* error messages logged by the current run

\* the InvertedListGenerator: its input, its instance, the position of its run
VARIABLES
  fs_xml,                   \* records [num, abstract] of the XML file
  input_files,              \* list of file names
  documents,                \* list of <<record_num, abstract>>
  inverted_index,           \* dict word -> list of record numbers
  gen_pc,
  gen_doc                   \* __process_data: position in documents

\* the QueryProcessor: its input, its instance, its two output files (the first
\* is fs_queries), the position of its run
VARIABLES
  fs_qxml,                  \* QUERY elements [num, text, has_records, items]
  fs_expected,              \* rows [query, doc, votes] after the header
  qp_queries_file,          \* self.queries_file: None or "queries.xml"
  output_queries_file,      \* None or "queries"
  output_expected_file,     \* None or "expected"
  qp_queries,               \* self.queries: list of <<query_number, text>>
  expected,                 \* list of <<query_number, doc_number, doc_score>>
  qp_pc,
  qp_runs                   \* calls of run so far

\* the module of main.py whose run() the caller invokes
VARIABLE module

qp_state ==
  <<fs_qxml, fs_expected, qp_queries_file, output_queries_file,
    output_expected_file, qp_queries, expected, qp_pc, qp_runs>>

gen_state == <<fs_xml, input_files, documents, inverted_index, gen_pc, gen_doc>>

idx_state ==
  <<idx_config, fs_index, input_file, output_file, document_terms,
    term_document_frequency, total_documents, idx_pc, idx_row, idx_ent,
    idx_doc, idx_term, tf, idf, tf_idf_scores, idx_exc, idx_log>>

se_state ==
  <<se_config, fs_queries, fs_results, model_file, queries_file, results_file,
    unique_terms, model, queries, results, query_vectors, document_vectors,
    se_pc, se_exc, se_log>>

vars == <<module, qp_state, gen_state, idx_state, fs_model, se_state>>

None == "None"

\* ------------------------------------------------------- Indexer: inputs
PostingLists == SeqUpTo(1..MaxDoc, MaxPost)

GoodIndexRows == [term : Terms, docs : PostingLists, ok : {TRUE}]

\* a row eval() or row[1] fails on
BadIndexRow == [term |-> "A", docs |-> <<>>, ok |-> FALSE]

\* nothing after a malformed row is ever read: it is the last row of its file
IndexFiles ==
  LET good == SeqUpTo(GoodIndexRows, MaxIndexRows)
  IN  good \cup {Append(r, BadIndexRow) : r \in {g \in good : Len(g) < MaxIndexRows}}

\* ----------------------------------------------------------------- Init
\* Indexer.__init__, lines 17-23
IdxConstructed ==
  /\ input_file = None
  /\ output_file = None
  /\ document_terms = <<>>
  /\ term_document_frequency = <<>>
  /\ total_documents = 0
  /\ idx_pc = "idle"
  /\ idx_row = 0
  /\ idx_ent = 0
  /\ idx_doc = 0
  /\ idx_term = 0
  /\ tf = None
  /\ idf = None
  /\ tf_idf_scores = <<>>
  /\ idx_exc = "none"
  /\ idx_log = {}

\* SearchEngine.__init__, lines 15-23
SEConstructed ==
  /\ model_file = None
  /\ queries_file = None
  /\ results_file = None
  /\ unique_terms = <<>>
  /\ model = <<>>
  /\ queries = <<>>
  /\ results = <<>>
  /\ query_vectors = <<>>
  /\ document_vectors = <<>>
  /\ se_pc = "idle"
  /\ se_exc = "none"
  /\ se_log = {}

\* QueryProcessor.__init__, lines 15-21
QPConstructed ==
  /\ qp_queries_file = None
  /\ output_queries_file = None
  /\ output_expected_file = None
  /\ qp_queries = <<>>
  /\ expected = <<>>
  /\ qp_pc = "idle"
  /\ qp_runs = 0

\* a QueryProcessor that is not run: no query XML, no expected-results file
QPIdle ==
  /\ fs_qxml = <<>>
  /\ fs_expected = <<>>
  /\ QPConstructed

\* InvertedListGenerator.__init__, lines 15-20
GenConstructed ==
  /\ input_files = <<>>
  /\ documents = <<>>
  /\ inverted_index = <<>>
  /\ gen_pc = "idle"
  /\ gen_doc = 0

NoFile == [exists |-> FALSE, rows |-> <<>>]

\* the Indexer alone, on every index file within the bounds
IdxInit ==
  /\ idx_config \in {"ok", "missing", "no_leia"}
  /\ fs_index \in [exists : {TRUE}, rows : IndexFiles] \cup {NoFile}
  /\ (idx_config # "ok" => fs_index.rows = <<>>)
  /\ fs_model = NoFile
  /\ IdxConstructed
  /\ se_config = "ok"
  /\ fs_queries = NoFile
  /\ fs_results = <<>>
  /\ SEConstructed
  /\ fs_xml = <<>>
  /\ GenConstructed
  /\ QPIdle
  /\ module = "Indexer"

\* what no step of the Indexer changes: its input files and the other modules
IdxEnv == <<module, qp_state, gen_state, idx_config, fs_index, se_state>>
IdxTally == <<document_terms, term_document_frequency, total_documents>>
IdxCalc == <<idx_doc, idx_term, tf, idf, tf_idf_scores>>

\* an exception leaves the run: logged names what the stage logged, if anything
IdxRaise(exc, logged) ==
  /\ idx_pc' = "failed"
  /\ idx_exc' = exc
  /\ idx_log' = idx_log \cup logged

\* ------------------------------------------------------- Indexer: actions
\* a run that starts without resetting the three tallies
IdxRunKeepsTallies ==
  /\ idx_pc \in {"idle", "failed"}
  /\ idx_pc' = "read_configuration"
  /\ idx_row' = 0
  /\ idx_ent' = 0
  /\ idx_doc' = 0
  /\ idx_term' = 0
  /\ tf' = None
  /\ idf' = None
  /\ tf_idf_scores' = <<>>
  /\ idx_exc' = "none"
  /\ idx_log' = {}
  /\ UNCHANGED <<IdxEnv, fs_model, input_file, output_file, IdxTally>>

\* run, lines 131-135: the three tallies are reset; input_file and
\* output_file keep what an earlier run left in them
IdxRun ==
  /\ idx_pc \in {"idle", "failed"}
  /\ document_terms' = <<>>
  /\ term_document_frequency' = <<>>
  /\ total_documents' = 0
  /\ idx_pc' = "read_configuration"
  /\ idx_row' = 0
  /\ idx_ent' = 0
  /\ idx_doc' = 0
  /\ idx_term' = 0
  /\ tf' = None
  /\ idf' = None
  /\ tf_idf_scores' = <<>>
  /\ idx_exc' = "none"
  /\ idx_log' = {}
  /\ UNCHANGED <<IdxEnv, fs_model, input_file, output_file>>

\* read_configuration: LEIA= sets input_file, ESCREVA= sets output_file
IdxReadConfiguration ==
  /\ idx_pc = "read_configuration"
  /\ IF idx_config = "missing"
     THEN /\ IdxRaise("FileNotFoundError", {"Configuration file not found"})
          /\ UNCHANGED <<input_file, output_file>>
     ELSE /\ input_file' = IF idx_config = "ok" THEN "index" ELSE input_file
          /\ output_file' = "model"
          /\ idx_pc' = "process_documents"
          /\ UNCHANGED <<idx_exc, idx_log>>
  /\ UNCHANGED <<IdxEnv, fs_model, IdxTally, idx_row, idx_ent, IdxCalc>>

\* process_documents, line 80: open(self.input_file); any exception of the
\* stage is logged by the handler of lines 92-94 and raised again
IdxOpenIndex ==
  /\ idx_pc = "process_documents"
  /\ IF input_file = None
     THEN /\ IdxRaise("TypeError", {"Error processing documents"})
          /\ UNCHANGED <<idx_row, idx_ent>>
     ELSE IF ~fs_index.exists
     THEN /\ IdxRaise("FileNotFoundError", {"Error processing documents"})
          /\ UNCHANGED <<idx_row, idx_ent>>
     ELSE /\ idx_pc' = "scan"
          /\ idx_row' = 1
          /\ idx_ent' = 1
          /\ UNCHANGED <<idx_exc, idx_log>>
  /\ UNCHANGED <<IdxEnv, fs_model, input_file, output_file, IdxTally, IdxCalc>>

\* a tally that records that a document holds a term, not how often
TallyPresence(dt, term, doc_id) ==
  Put(dt, doc_id, Put(GetOr(dt, doc_id, <<>>), term, 1))

\* lines 86-91 for one doc_id of the posting list of term
Tally(dt, term, doc_id) ==
  LET terms == GetOr(dt, doc_id, <<>>)
  IN  Put(dt, doc_id,
          IF ~Has(terms, term) THEN Put(terms, term, 1)
                               ELSE Put(terms, term, Get(terms, term) + 1))

\* line 86
CountDocument(n) == n + 1

\* a tally that adds two for every posting-list entry
CountTermTwice(tdf, term) == Put(tdf, term, GetOr(tdf, term, 0) + 2)

\* line 91
CountTerm(tdf, term) == Put(tdf, term, GetOr(tdf, term, 0) + 1)

\* process_documents, lines 85-91: one entry of the posting list of a row
IdxScanEntry ==
  /\ idx_pc = "scan"
  /\ idx_row <= Len(fs_index.rows)
  /\ fs_index.rows[idx_row].ok
  /\ idx_ent <= Len(fs_index.rows[idx_row].docs)
  /\ LET row == fs_index.rows[idx_row]
         doc_id == row.docs[idx_ent]
     IN  /\ total_documents' = CountDocument(total_documents)
         /\ document_terms' = Tally(document_terms, row.term, doc_id)
         /\ term_document_frequency' = CountTerm(term_document_frequency, row.term)
  /\ idx_ent' = idx_ent + 1
  /\ UNCHANGED <<IdxEnv, fs_model, input_file, output_file, idx_pc, idx_row,
                 IdxCalc, idx_exc, idx_log>>

\* process_documents, line 82: the posting list is exhausted, next row
IdxNextRow ==
  /\ idx_pc = "scan"
  /\ idx_row <= Len(fs_index.rows)
  /\ fs_index.rows[idx_row].ok
  /\ idx_ent > Len(fs_index.rows[idx_row].docs)
  /\ idx_row' = idx_row + 1
  /\ idx_ent' = 1
  /\ UNCHANGED <<IdxEnv, fs_model, input_file, output_file, IdxTally, idx_pc,
                 IdxCalc, idx_exc, idx_log>>

\* process_documents, lines 83-84 on a malformed row, then lines 92-94
IdxBadRow ==
  /\ idx_pc = "scan"
  /\ idx_row <= Len(fs_index.rows)
  /\ ~fs_index.rows[idx_row].ok
  /\ IdxRaise("ParseError", {"Error processing documents"})
  /\ UNCHANGED <<IdxEnv, fs_model, input_file, output_file, IdxTally, idx_row,
                 idx_ent, IdxCalc>>

\* process_documents returns; calculate_tf_idf, line 100
IdxScanEnd ==
  /\ idx_pc = "scan"
  /\ idx_row > Len(fs_index.rows)
  /\ idx_pc' = "calculate_tf_idf"
  /\ idx_doc' = 1
  /\ idx_term' = 1
  /\ tf_idf_scores' = <<>>
  /\ UNCHANGED <<IdxEnv, fs_model, input_file, output_file, IdxTally, idx_row,
                 idx_ent, tf, idf, idx_exc, idx_log>>

RECURSIVE MaxValue(_)
MaxValue(d) ==
  IF d = <<>> THEN 0
  ELSE LET m == MaxValue(Tail(d)) IN IF d[1].v > m THEN d[1].v ELSE m

\* tf normalised by the largest raw count of the document instead of the sum
TermFrequencyByMax(count, terms) == [num |-> count, den |-> MaxValue(terms)]

\* line 104: count / float(doc_term_count), kept as the exact fraction
TermFrequency(count, terms) == [num |-> count, den |-> SumValues(terms)]

\* line 105: math.log(self.total_documents / (1 + self.term_document_frequency[term]))
InverseDocumentFrequency(n, df) == MathLog(n, 1 + df)

\* a weight that is the term frequency alone, in hundredths
WeightWithoutIdf(f, l) == (f.num * 100) \div f.den

\* line 106: tf * idf, in hundredths
Weight(f, l) == (f.num * l) \div f.den

\* calculate_tf_idf, lines 103-106 for one (doc_id, term) of document_terms
IdxCalcEntry ==
  /\ idx_pc = "calculate_tf_idf"
  /\ idx_doc <= Len(document_terms)
  /\ LET doc_id == document_terms[idx_doc].k
         terms == document_terms[idx_doc].v
         term == terms[idx_term].k
         count == terms[idx_term].v
         f == TermFrequency(count, terms)
         l == InverseDocumentFrequency(total_documents,
                                       GetOr(term_document_frequency, term, 0))
     IN  /\ tf' = f
         /\ idf' = l
         /\ tf_idf_scores' =
              Put(tf_idf_scores, doc_id,
                  Put(GetOr(tf_idf_scores, doc_id, <<>>), term, Weight(f, l)))
         /\ IF idx_term < Len(terms)
            THEN /\ idx_term' = idx_term + 1
                 /\ idx_doc' = idx_doc
            ELSE /\ idx_term' = 1
                 /\ idx_doc' = idx_doc + 1
  /\ UNCHANGED <<IdxEnv, fs_model, input_file, output_file, IdxTally, idx_pc,
                 idx_row, idx_ent, idx_exc, idx_log>>

\* calculate_tf_idf, line 107: return tf_idf_scores
IdxCalcEnd ==
  /\ idx_pc = "calculate_tf_idf"
  /\ idx_doc > Len(document_terms)
  /\ idx_pc' = "write_output"
  /\ UNCHANGED <<IdxEnv, fs_model, input_file, output_file, IdxTally, idx_row,
                 idx_ent, IdxCalc, idx_exc, idx_log>>

\* run, line 139: self.write_output(tf_idf_scores). Indexer has no attribute
\* write_output (the writer of lines 109-124 is named write_data), so the
\* attribute lookup raises AttributeError; nothing is logged, nothing written
IdxWriteOutput ==
  /\ idx_pc = "write_output"
  /\ IdxRaise("AttributeError", {})
  /\ UNCHANGED <<IdxEnv, fs_model, input_file, output_file, IdxTally, idx_row,
                 idx_ent, IdxCalc>>

\* a caller that does not go through run() calls the public stages of its new
\* instance itself, read_configuration first
IdxStages ==
  /\ idx_pc = "idle"
  /\ idx_pc' = "read_configuration"
  /\ UNCHANGED <<IdxEnv, fs_model, input_file, output_file, IdxTally, idx_row,
                 idx_ent, IdxCalc, idx_exc, idx_log>>

RECURSIVE ModelRowsOf(_)
\* write_data, lines 117-119: one row [doc_id, term, score] per item
ModelRowsOf(scores) ==
  IF scores = <<>> THEN <<>>
  ELSE [j \in DOMAIN scores[1].v |->
          [doc |-> Repr(scores[1].k), term |-> scores[1].v[j].k,
           score |-> Repr(scores[1].v[j].v), ok |-> TRUE]]
       \o ModelRowsOf(Tail(scores))

\* write_data(tf_idf_scores), lines 115-119, called with what calculate_tf_idf
\* returned; run() never calls it
IdxWriteData ==
  /\ idx_pc = "write_output"
  /\ output_file # None
  /\ fs_model' = [exists |-> TRUE, rows |-> ModelRowsOf(tf_idf_scores)]
  /\ idx_pc' = "persisted"
  /\ UNCHANGED <<IdxEnv, input_file, output_file, IdxTally, idx_row, idx_ent,
                 IdxCalc, idx_exc, idx_log>>

IdxNext ==
  \/ IdxRun
  \/ IdxReadConfiguration
  \/ IdxOpenIndex
  \/ IdxScanEntry
  \/ IdxNextRow
  \/ IdxBadRow
  \/ IdxScanEnd
  \/ IdxCalcEntry
  \/ IdxCalcEnd
  \/ IdxWriteOutput

IdxSpec == IdxInit /\ [][IdxNext]_vars

\* ------------------------------------------------- Indexer: what was read
\* positions <<row, entry>> of the index file
IndexEntries ==
  {p \in (DOMAIN fs_index.rows) \X (1..MaxPost) :
     p[2] <= Len(fs_index.rows[p[1]].docs)}

\* occurrences of doc_id in the posting lists of term
Occurrences(term, doc_id) ==
  Cardinality({p \in IndexEntries :
     /\ fs_index.rows[p[1]].term = term
     /\ fs_index.rows[p[1]].docs[p[2]] = doc_id})

\* occurrences of doc_id in the whole index
DocOccurrences(doc_id) ==
  Cardinality({p \in IndexEntries : fs_index.rows[p[1]].docs[p[2]] = doc_id})

\* distinct document ids of the posting lists of term
DocsOfTerm(term) ==
  {fs_index.rows[p[1]].docs[p[2]] :
     p \in {q \in IndexEntries : fs_index.rows[q[1]].term = term}}

\* distinct document ids of the whole index
DocsOfIndex == {fs_index.rows[p[1]].docs[p[2]] : p \in IndexEntries}

TermsOfDoc(doc_id) == {t \in Terms : Occurrences(t, doc_id) >= 1}

\* a readable configuration and a well-formed, non-empty inverted index
WellFormedIndex ==
  /\ idx_config = "ok"
  /\ fs_index.exists
  /\ \A i \in DOMAIN fs_index.rows : fs_index.rows[i].ok
  /\ IndexEntries # {}

\* process_documents has returned
Scanned == idx_pc \in {"calculate_tf_idf", "write_output"} \/ idx_exc = "AttributeError"

\* calculate_tf_idf has run lines 103-106 at least once: tf and idf are set
Calculated == idx_doc > 1 \/ idx_term > 1

\* the (doc_id, term) of the last iteration of calculate_tf_idf
LastDoc == IF idx_term > 1 THEN idx_doc ELSE idx_doc - 1
LastTerm == IF idx_term > 1 THEN idx_term - 1 ELSE Len(document_terms[idx_doc - 1].v)
LastDocId == document_terms[LastDoc].k
LastTermKey == document_terms[LastDoc].v[LastTerm].k

\* ---------------------------------------------------------- Indexer: claims

\* C1 (as claimed): a run on a readable configuration and a well-formed,
\* non-empty index never ends in an exception, and once it has ended the model
\* file holds exactly one row per (document, term) pair of raw count >= 1.
C1_IndexerRunPersistsModel ==
  WellFormedIndex =>
    /\ idx_pc # "failed"
    /\ (idx_pc = "persisted" =>
          /\ Len(fs_model.rows) = Cardinality({<<d, t>> \in (1..MaxDoc) \X Terms :
                                              Occurrences(t, d) >= 1})
          /\ \A d \in 1..MaxDoc, t \in Terms :
               Occurrences(t, d) >= 1 <=>
                 \E i \in DOMAIN fs_model.rows :
                    fs_model.rows[i].doc = d /\ fs_model.rows[i].term = t)

C3_TotalDocumentsCountsDistinctIds ==
  Scanned => total_documents = Cardinality(DocsOfIndex)

\* C4 (as claimed): once process_documents has returned,
\* term_document_frequency[t] is the number of distinct document ids in the
\* posting lists of t.
C4_DocumentFrequencyCountsDistinctIds ==
  Scanned =>
    \A t \in Keys(term_document_frequency) :
       Get(term_document_frequency, t) = Cardinality(DocsOfTerm(t))

\* C5 (as claimed): the idf of the last iteration of calculate_tf_idf is
\* ln(total_documents / term_document_frequency[t]), and it is 0 exactly when
\* term_document_frequency[t] = total_documents.
C5_IdfIsLogOfTotalOverFrequency ==
  Calculated =>
    LET df == Get(term_document_frequency, LastTermKey)
    IN  /\ idf = MathLog(total_documents, df)
        /\ (idf = 0 <=> df = total_documents)

\* C9 (as claimed): every weight calculate_tf_idf puts in the model is
\* non-negative.
C9_WeightsNonNegative ==
  \A i \in DOMAIN tf_idf_scores :
     \A j \in DOMAIN tf_idf_scores[i].v : tf_idf_scores[i].v[j].v >= 0

\* ================================================================ SearchEngine
\* ------------------------------------------------------ SearchEngine: inputs
\* rows of the model file read by one run
MaxModelRows == 2
\* rows of the query file, after its header
MaxQueries == 2

\* document ids are the strings of the first column of the model file
ModelDocs == {"1", "2"}

\* the score column of a model row, as written in the file
ScoreTexts == {"-1.0", "0.0", "1.0"}

QueryIds == {1, 2}

\* the QueryText column: "Z" is a word of no document
QueryTexts == {<<"A">>, <<"B", "A", "B", "Z">>}

\* every word, in lexicographic order
Alphabet == <<"A", "B", "Z">>

GoodModelRows == [doc : ModelDocs, term : Terms, score : ScoreTexts, ok : {TRUE}]

\* a row that is not three fields, or whose score float() rejects
BadModelRow == [doc |-> "1", term |-> "A", score |-> "", ok |-> FALSE]

GoodQueryRows == [id : QueryIds, text : QueryTexts, ok : {TRUE}]

\* a row int(row[0]) or row[1] fails on
BadQueryRow == [id |-> 0, text |-> <<>>, ok |-> FALSE]

\* nothing after a malformed row is ever read: it is the last row of its file
FilesOf(good, bad, n) ==
  LET files == SeqUpTo(good, n)
  IN  files \cup {Append(f, bad) : f \in {g \in files : Len(g) < n}}

ModelFiles == FilesOf(GoodModelRows, BadModelRow, MaxModelRows)

QueryFiles == FilesOf(GoodQueryRows, BadQueryRow, MaxQueries)

\* the SearchEngine alone, on every model file and query file within the bounds
SEInit ==
  /\ se_config \in {"ok", "missing", "no_modelo"}
  /\ fs_model \in [exists : {TRUE}, rows : ModelFiles] \cup {NoFile}
  /\ fs_queries \in [exists : {TRUE}, rows : QueryFiles] \cup {NoFile}
  /\ (se_config # "ok" => fs_model = NoFile /\ fs_queries = NoFile)
  /\ (~fs_model.exists => fs_queries = NoFile)
  /\ fs_results = <<>>
  /\ SEConstructed
  /\ idx_config = "ok"
  /\ fs_index = NoFile
  /\ IdxConstructed
  /\ fs_xml = <<>>
  /\ GenConstructed
  /\ QPIdle
  /\ module = "SearchEngine"

\* what no step of the SearchEngine changes: its input files and the other
\* modules
SEEnv == <<module, qp_state, gen_state, se_config, fs_model, fs_queries, idx_state>>
SEPaths == <<model_file, queries_file, results_file>>
SEData == <<unique_terms, model, queries, results>>
\* the vectors __process_data builds, lines 104-105
SEVectors == <<query_vectors, document_vectors>>

SERaise(exc, logged) ==
  /\ se_pc' = "failed"
  /\ se_exc' = exc
  /\ se_log' = se_log \cup logged

\* --------------------------------------------------- SearchEngine: reading
\* the weights a model file written by the Indexer can hold, in hundredths
FloatRange == (0 - LnTable[Len(LnTable)])..LnTable[Len(LnTable)]

\* float(score), in hundredths: the texts of ScoreTexts, and what Repr writes
Float(text) ==
  CASE text = "-1.0" -> -100
    [] text = "0.0" -> 0
    [] text = "1.0" -> 100
    [] OTHER -> CHOOSE x \in FloatRange : Repr(x) = text

RECURSIVE ReadModelRows(_, _)
\* __read_model, lines 56-59, up to the end of the file or the row that raises
ReadModelRows(rows, m) ==
  IF rows = <<>> \/ ~rows[1].ok THEN m
  ELSE LET row == rows[1]
       IN  ReadModelRows(Tail(rows),
             Put(m, row.doc, Put(GetOr(m, row.doc, <<>>), row.term, Float(row.score))))

RECURSIVE ReadQueryRows(_, _)
\* __read_queries, lines 80-84, up to the end of the file or the row that raises
ReadQueryRows(rows, q) ==
  IF rows = <<>> \/ ~rows[1].ok THEN q
  ELSE ReadQueryRows(Tail(rows), Put(q, rows[1].id, rows[1].text))

Malformed(rows) == \E i \in DOMAIN rows : ~rows[i].ok

\* ----------------------------------------------------- SearchEngine: vectors
Range(f) == {f[i] : i \in DOMAIN f}

RECURSIVE Sorted(_, _)
\* sorted(set) of words: the words of the set in the order of the alphabet
Sorted(S, alphabet) ==
  IF alphabet = <<>> THEN <<>>
  ELSE IF alphabet[1] \in S THEN <<alphabet[1]>> \o Sorted(S, Tail(alphabet))
  ELSE Sorted(S, Tail(alphabet))

RECURSIVE FirstSeen(_, _)
\* the distinct words of a list, in the order in which they first appear
FirstSeen(words, seen) ==
  IF words = <<>> THEN seen
  ELSE FirstSeen(Tail(words),
                 IF words[1] \in Range(seen) THEN seen ELSE Append(seen, words[1]))

RECURSIVE TermsInOrder(_)
\* the terms of a model, document after document
TermsInOrder(m) ==
  IF m = <<>> THEN <<>>
  ELSE [i \in DOMAIN m[1].v |-> m[1].v[i].k] \o TermsInOrder(Tail(m))

\* the vocabulary left in the order in which the model yields it, not sorted
BuildUniqueTermsUnsorted(m) == FirstSeen(TermsInOrder(m), <<>>)

\* __build_unique_terms, lines 123-127
BuildUniqueTerms(m) ==
  Sorted(UNION {Keys(m[i].v) : i \in DOMAIN m}, Alphabet)

\* a vector that records which terms a document holds, not their weights
DocumentVectorPresence(terms, ut) ==
  [i \in DOMAIN ut |-> IF Has(terms, ut[i]) THEN 1 ELSE 0]

\* __build_document_vectors, line 135
DocumentVector(terms, ut) == [i \in DOMAIN ut |-> GetOr(terms, ut[i], 0)]

\* a vector that counts how often the query holds each term
QueryVectorCounts(words, ut) ==
  [i \in DOMAIN ut |-> Cardinality({j \in DOMAIN words : words[j] = ut[i]})]

\* __build_query_vectors, line 145
QueryVector(words, ut) == [i \in DOMAIN ut |-> IF ut[i] \in Range(words) THEN 1 ELSE 0]

RECURSIVE Dot(_, _)
\* np.dot
Dot(v1, v2) == IF v1 = <<>> THEN 0 ELSE v1[1] * v2[1] + Dot(Tail(v1), Tail(v2))

\* ------------------------------------------------------ SearchEngine: scores
\* A score is the real number sgn * sqrt(num / den), num / den in lowest terms.
Zero == [sgn |-> 0, num |-> 0, den |-> 1]

\* what numpy gives for a division by a zero norm product
NaN == [sgn |-> 2, num |-> 0, den |-> 0]

\* dot / norm_product, where norm_product = sqrt(n2)
Quotient(dot, n2) ==
  IF n2 = 0 THEN NaN
  ELSE IF dot = 0 THEN Zero
  ELSE LET g == Gcd(dot * dot, n2)
       IN  [sgn |-> IF dot > 0 THEN 1 ELSE -1, num |-> (dot * dot) \div g, den |-> n2 \div g]

\* a < b on scores
Less(a, b) ==
  IF a.sgn # b.sgn THEN a.sgn < b.sgn
  ELSE IF a.sgn = 1 THEN a.num * b.den < b.num * a.den
  ELSE IF a.sgn = -1 THEN a.num * b.den > b.num * a.den
  ELSE FALSE

\* the similarity with the test of line 155 left out
CalculateSimilarityUnguarded(vector1, vector2) ==
  Quotient(Dot(vector1, vector2), Dot(vector1, vector1) * Dot(vector2, vector2))

\* __calculate_similarity, lines 153-159
CalculateSimilarity(vector1, vector2) ==
  LET dot_product == Dot(vector1, vector2)
      norm_product2 == Dot(vector1, vector1) * Dot(vector2, vector2)
  IN  IF norm_product2 # 0 THEN Quotient(dot_product, norm_product2) ELSE Zero

\* ----------------------------------------------------- SearchEngine: ranking
RECURSIVE InsertBeforeTies(_, _)
\* x goes before the first item whose score is not greater than its own
InsertBeforeTies(x, items) ==
  IF items = <<>> THEN <<x>>
  ELSE IF Less(x[2], items[1][2]) THEN <<items[1]>> \o InsertBeforeTies(x, Tail(items))
  ELSE <<x>> \o items

RECURSIVE InsertDescending(_, _)
\* x goes after every item whose score is not smaller than its own
InsertDescending(x, items) ==
  IF items = <<>> THEN <<x>>
  ELSE IF Less(items[1][2], x[2]) THEN <<x>> \o items
  ELSE <<items[1]>> \o InsertDescending(x, Tail(items))

RECURSIVE SortTiesReversed(_, _)
\* a descending sort that is not stable: equal scores come out in reverse
SortTiesReversed(items, acc) ==
  IF items = <<>> THEN acc
  ELSE SortTiesReversed(Tail(items), InsertBeforeTies(items[1], acc))

RECURSIVE SortDescending(_, _)
\* sorted(scores.items(), key=lambda x: x[1], reverse=True), line 114: the sort
\* is stable, items of equal score keep the order of scores.items()
SortDescending(items, acc) ==
  IF items = <<>> THEN acc
  ELSE SortDescending(Tail(items), InsertDescending(items[1], acc))

\* __build_document_vectors, lines 133-137: one vector per document of the model
BuildDocumentVectors(m, ut) ==
  [i \in DOMAIN m |-> [k |-> m[i].k, v |-> DocumentVector(m[i].v, ut)]]

\* __build_query_vectors, lines 143-147: one vector per query
BuildQueryVectors(q, ut) ==
  [i \in DOMAIN q |-> [k |-> q[i].k, v |-> QueryVector(q[i].v, ut)]]

\* the scores of a query with the documents of score zero left out
ScoresPruned(query_vector, doc_vectors) ==
  SelectSeq([i \in DOMAIN doc_vectors |->
               <<doc_vectors[i].k, CalculateSimilarity(query_vector, doc_vectors[i].v)>>],
            LAMBDA item : item[2] # Zero)

\* lines 108-111: scores.items(), one item per document of document_vectors
Scores(query_vector, doc_vectors) ==
  [i \in DOMAIN doc_vectors |->
     <<doc_vectors[i].k, CalculateSimilarity(query_vector, doc_vectors[i].v)>>]

RECURSIVE WordsUpTo(_, _)
\* the words of the first n queries, one list after the other
WordsUpTo(q, n) == IF n = 0 THEN <<>> ELSE WordsUpTo(q, n - 1) \o q[n].v

\* a ranking whose query vector is not started afresh for each query: it keeps
\* the terms of the queries before it
RankCarryingWords(m, q, ut) ==
  LET doc_vectors == BuildDocumentVectors(m, ut)
  IN  [i \in DOMAIN q |->
         [k |-> q[i].k,
          v |-> SortDescending(Scores(QueryVector(WordsUpTo(q, i), ut), doc_vectors),
                               <<>>)]]

\* __process_data, lines 107-115: the results of every query
Rank(m, q, ut) ==
  LET vectors == BuildQueryVectors(q, ut)
      doc_vectors == BuildDocumentVectors(m, ut)
  IN  [i \in DOMAIN vectors |->
         [k |-> vectors[i].k,
          v |-> SortDescending(Scores(vectors[i].v, doc_vectors), <<>>)]]

RECURSIVE ResultRows(_, _, _)
\* lines 171-173 for the results of one query, ranking being the counter
ResultRows(query_id, items, ranking) ==
  IF items = <<>> THEN <<>>
  ELSE <<[query |-> query_id, rank |-> ranking, doc |-> items[1][1], score |-> items[1][2]]>>
       \o ResultRows(query_id, Tail(items), ranking + 1)

RECURSIVE WriteRowsOneCounter(_, _)
\* the rows written when the counter is not set back to 1 for each query
WriteRowsOneCounter(res, ranking) ==
  IF res = <<>> THEN <<>>
  ELSE ResultRows(res[1].k, res[1].v, ranking)
       \o WriteRowsOneCounter(Tail(res), ranking + Len(res[1].v))

RECURSIVE WriteRows(_, _)
\* __write_data, lines 169-173: ranking = 1 for each query
WriteRows(res, ranking) ==
  IF res = <<>> THEN <<>>
  ELSE ResultRows(res[1].k, res[1].v, ranking) \o WriteRows(Tail(res), ranking)

\* ----------------------------------------------------- SearchEngine: actions
\* a run that opens the results file for writing as it starts, emptying it
SERunOpensResults ==
  /\ se_pc \in {"idle", "done", "failed"}
  /\ unique_terms' = <<>>
  /\ model' = <<>>
  /\ queries' = <<>>
  /\ results' = <<>>
  /\ query_vectors' = <<>>
  /\ document_vectors' = <<>>
  /\ fs_results' = <<>>
  /\ se_pc' = "read_configuration"
  /\ se_exc' = "none"
  /\ se_log' = {}
  /\ UNCHANGED <<SEEnv, SEPaths>>

\* run, lines 185-190: the four collections are reset; the three file names
\* keep what an earlier run left in them
SERun ==
  /\ se_pc \in {"idle", "done", "failed"}
  /\ unique_terms' = <<>>
  /\ model' = <<>>
  /\ queries' = <<>>
  /\ results' = <<>>
  /\ query_vectors' = <<>>
  /\ document_vectors' = <<>>
  /\ se_pc' = "read_configuration"
  /\ se_exc' = "none"
  /\ se_log' = {}
  /\ UNCHANGED <<SEEnv, fs_results, SEPaths>>

\* __read_configuration, lines 31-45
SEReadConfiguration ==
  /\ se_pc = "read_configuration"
  /\ IF se_config = "missing"
     THEN /\ SERaise("FileNotFoundError", {"Configuration file not found"})
          /\ UNCHANGED SEPaths
     ELSE /\ model_file' = IF se_config = "ok" THEN "model" ELSE model_file
          /\ queries_file' = "queries"
          /\ results_file' = "results"
          /\ se_pc' = "read_model"
          /\ UNCHANGED <<se_exc, se_log>>
  /\ UNCHANGED <<SEEnv, fs_results, SEData, SEVectors>>

\* __read_model, lines 52-68: only FileNotFoundError and OSError are logged
SEReadModel ==
  /\ se_pc = "read_model"
  /\ IF model_file = None
     THEN /\ SERaise("TypeError", {})
          /\ UNCHANGED model
     ELSE IF ~fs_model.exists
     THEN /\ SERaise("FileNotFoundError", {"Model file not found"})
          /\ UNCHANGED model
     ELSE /\ model' = ReadModelRows(fs_model.rows, model)
          /\ IF Malformed(fs_model.rows)
             THEN SERaise("ValueError", {})
             ELSE /\ se_pc' = "read_queries"
                  /\ UNCHANGED <<se_exc, se_log>>
  /\ UNCHANGED <<SEEnv, fs_results, SEPaths, SEVectors, unique_terms, queries, results>>

\* __read_queries, lines 75-93
SEReadQueries ==
  /\ se_pc = "read_queries"
  /\ IF ~fs_queries.exists
     THEN /\ SERaise("FileNotFoundError", {"Queries file not found"})
          /\ UNCHANGED queries
     ELSE /\ queries' = ReadQueryRows(fs_queries.rows, queries)
          /\ IF Malformed(fs_queries.rows)
             THEN SERaise("ValueError", {})
             ELSE /\ se_pc' = "process_data"
                  /\ UNCHANGED <<se_exc, se_log>>
  /\ UNCHANGED <<SEEnv, fs_results, SEPaths, SEVectors, unique_terms, model, results>>

\* __process_data, lines 100-115
SEProcessData ==
  /\ se_pc = "process_data"
  /\ unique_terms' = BuildUniqueTerms(model)
  /\ query_vectors' = BuildQueryVectors(queries, BuildUniqueTerms(model))
  /\ document_vectors' = BuildDocumentVectors(model, BuildUniqueTerms(model))
  /\ results' = Rank(model, queries, BuildUniqueTerms(model))
  /\ se_pc' = "write_data"
  /\ UNCHANGED <<SEEnv, fs_results, SEPaths, model, queries, se_exc, se_log>>

\* __write_data, lines 167-174: the file is opened for writing, so what it held
\* is replaced
SEWriteData ==
  /\ se_pc = "write_data"
  /\ fs_results' = WriteRows(results, 1)
  /\ se_pc' = "done"
  /\ UNCHANGED <<SEEnv, SEPaths, SEData, SEVectors, se_exc, se_log>>

SENext ==
  \/ SERun
  \/ SEReadConfiguration
  \/ SEReadModel
  \/ SEReadQueries
  \/ SEProcessData
  \/ SEWriteData

SESpec == SEInit /\ [][SENext]_vars

\* ------------------------------------------------ SearchEngine: what was read
\* __process_data has returned in the current run
Ranked == se_pc \in {"write_data", "done"}

\* the distinct document ids of the model file
FileDocs == {fs_model.rows[i].doc : i \in DOMAIN fs_model.rows}

\* the distinct query ids of the query file
FileQueries == {fs_queries.rows[i].id : i \in DOMAIN fs_queries.rows}

\* the row of the model file in which a document first appears
FirstRow(doc) ==
  CHOOSE i \in DOMAIN fs_model.rows :
    /\ fs_model.rows[i].doc = doc
    /\ \A j \in 1..(i - 1) : fs_model.rows[j].doc # doc

\* no (document, term) pair is in two rows
NoRepeatedPair(rows) ==
  \A i, j \in DOMAIN rows :
     i # j => <<rows[i].doc, rows[i].term>> # <<rows[j].doc, rows[j].term>>

\* the results of a run whose model file holds the same rows in the order p
ResultsOfOrder(p) ==
  LET m == ReadModelRows([i \in DOMAIN fs_model.rows |-> fs_model.rows[p[i]]], <<>>)
  IN  Rank(m, queries, BuildUniqueTerms(m))

\* the query vector of these words, or the document vector of doc, is all-zero
ZeroQuery(words) == \A t \in Range(unique_terms) : t \notin Range(words)
ZeroDocument(doc) == \A t \in Range(unique_terms) : GetOr(Get(model, doc), t, 0) = 0

\* --------------------------------------------------- SearchEngine: claims

\* C6: once the queries are ranked, every query of the query file has a
\* ranking, and each ranking holds every document of the model file exactly
\* once; once the results are written, the file holds exactly one row per
\* (query, document) pair.
C6_RankingCoversEveryDocument ==
  /\ Ranked =>
       /\ Keys(results) = FileQueries
       /\ \A i \in DOMAIN results :
            /\ Len(results[i].v) = Cardinality(FileDocs)
            /\ {results[i].v[j][1] : j \in DOMAIN results[i].v} = FileDocs
  /\ se_pc = "done" =>
       /\ Len(fs_results) = Cardinality(FileQueries) * Cardinality(FileDocs)
       /\ \A q \in FileQueries, d \in FileDocs :
            Cardinality({i \in DOMAIN fs_results :
                           fs_results[i].query = q /\ fs_results[i].doc = d}) = 1

\* C6 witness: the results are written for two documents, one of which scores
\* zero and the other not for some query.
C6_Witness ==
  /\ se_pc = "done"
  /\ Cardinality(FileDocs) = 2
  /\ \E i, j \in DOMAIN fs_results :
       /\ fs_results[i].query = fs_results[j].query
       /\ fs_results[i].score = Zero
       /\ fs_results[j].score # Zero

\* C7: in the results file the rows of a query carry the ranks 1, 2, ..., N in
\* this order (N the number of documents of the model file), the first row of
\* each query has rank 1, and no row has a greater score than the row before
\* it of the same query.
C7_RanksConsecutiveAndDescending ==
  se_pc = "done" =>
    \A i \in DOMAIN fs_results :
       LET row == fs_results[i]
           first == i = 1 \/ fs_results[i - 1].query # row.query
           last == i = Len(fs_results) \/ fs_results[i + 1].query # row.query
       IN  /\ first => row.rank = 1
           /\ ~first => /\ row.rank = fs_results[i - 1].rank + 1
                        /\ ~Less(fs_results[i - 1].score, row.score)
           /\ last => row.rank = Cardinality(FileDocs)

\* C7 witness: two queries are written, each with two documents, and the score
\* falls from rank 1 to rank 2 for the second query.
C7_Witness ==
  /\ se_pc = "done"
  /\ Len(fs_results) = 4
  /\ fs_results[1].query # fs_results[3].query
  /\ fs_results[3].rank = 1
  /\ fs_results[4].rank = 2
  /\ Less(fs_results[4].score, fs_results[3].score)

\* C8: a query/document pair whose query vector or document vector is all-zero
\* has the score 0 (and not the outcome of a division by a zero norm product);
\* so does every document for a query none of whose words is in unique_terms.
C8_ZeroVectorScoresZero ==
  Ranked =>
    \A i \in DOMAIN results :
       \A j \in DOMAIN results[i].v :
          (ZeroQuery(Get(queries, results[i].k)) \/ ZeroDocument(results[i].v[j][1]))
            => results[i].v[j][2] = Zero

\* C8 witness: a query with words, none of them in the vocabulary, has been
\* ranked against a model of two documents, one of them with weights all zero.
C8_Witness ==
  /\ Ranked
  /\ Len(model) = 2
  /\ unique_terms # <<>>
  /\ \E d \in Keys(model) : ZeroDocument(d)
  /\ \E d \in Keys(model) : ~ZeroDocument(d)
  /\ \E i \in DOMAIN queries : queries[i].v # <<>> /\ ZeroQuery(queries[i].v)

AlphabetRank(word) == CHOOSE i \in DOMAIN Alphabet : Alphabet[i] = word

\* the distinct terms of the model file
FileTerms == {fs_model.rows[i].term : i \in DOMAIN fs_model.rows}

\* C11: once __build_unique_terms has run, unique_terms is strictly increasing
\* in the lexicographic order (sorted, no duplicate) and its elements are
\* exactly the terms of the rows of the model file: the order of the rows
\* plays no part, and a word found only in the queries is not in it.
C11_UniqueTermsSortedModelTerms ==
  Ranked =>
    /\ \A i, j \in DOMAIN unique_terms :
         i < j => AlphabetRank(unique_terms[i]) < AlphabetRank(unique_terms[j])
    /\ Range(unique_terms) = FileTerms

\* C11 witness: the model file names B before A, a query holds the word Z of
\* no document, and the vocabulary is A, B.
C11_Witness ==
  /\ Ranked
  /\ unique_terms = <<"A", "B">>
  /\ fs_model.rows[1].term = "B"
  /\ \E i \in DOMAIN queries : "Z" \in Range(queries[i].v)

\* the weight the model file gives a term in a document: the score of the last
\* row that names both, 0 when no row does
FileWeight(doc, term) ==
  LET hits == {i \in DOMAIN fs_model.rows :
                 fs_model.rows[i].doc = doc /\ fs_model.rows[i].term = term}
  IN  IF hits = {} THEN 0
      ELSE Float(fs_model.rows[CHOOSE i \in hits : \A j \in hits : j <= i].score)

\* the words the query file gives a query id: the text of its last row
FileWords(query_id) ==
  LET hits == {i \in DOMAIN fs_queries.rows : fs_queries.rows[i].id = query_id}
  IN  fs_queries.rows[CHOOSE i \in hits : \A j \in hits : j <= i].text

\* C12: once __build_document_vectors has run there is one vector per document
\* of the model file and none for any other document; each vector is as long
\* as unique_terms, and its i-th entry is the weight the model gives
\* unique_terms[i] in that document, 0 when the document does not hold the term.
C12_DocumentVectorsFollowModel ==
  Ranked =>
    /\ Keys(document_vectors) = FileDocs
    /\ Len(document_vectors) = Cardinality(FileDocs)
    /\ \A n \in DOMAIN document_vectors :
         /\ Len(document_vectors[n].v) = Len(unique_terms)
         /\ \A i \in DOMAIN unique_terms :
              document_vectors[n].v[i] =
                FileWeight(document_vectors[n].k, unique_terms[i])

\* C12 witness: two documents over the vocabulary A, B, one holding only B with
\* a negative weight, the other only A.
C12_Witness ==
  /\ Ranked
  /\ unique_terms = <<"A", "B">>
  /\ Len(document_vectors) = 2
  /\ document_vectors[1].v = <<0, -100>>
  /\ document_vectors[2].v = <<100, 0>>

\* C13: once __build_query_vectors has run there is one vector per query of the
\* query file; each vector is as long as unique_terms and its i-th entry is 1
\* when unique_terms[i] is among the words of the query and 0 otherwise, so a
\* repeated word changes nothing and a word outside the vocabulary adds nothing.
C13_QueryVectorsBinaryPresence ==
  Ranked =>
    /\ Keys(query_vectors) = FileQueries
    /\ Len(query_vectors) = Cardinality(FileQueries)
    /\ \A n \in DOMAIN query_vectors :
         /\ Len(query_vectors[n].v) = Len(unique_terms)
         /\ \A i \in DOMAIN unique_terms :
              query_vectors[n].v[i] =
                IF unique_terms[i] \in Range(FileWords(query_vectors[n].k))
                THEN 1 ELSE 0

\* C13 witness: over the vocabulary A, B the query "B A B Z", with B repeated
\* and Z unknown, has the vector (1, 1), and the query "A" the vector (1, 0).
C13_Witness ==
  /\ Ranked
  /\ unique_terms = <<"A", "B">>
  /\ Len(query_vectors) = 2
  /\ Get(queries, query_vectors[1].k) = <<"B", "A", "B", "Z">>
  /\ query_vectors[1].v = <<1, 1>>
  /\ Get(queries, query_vectors[2].k) = <<"A">>
  /\ query_vectors[2].v = <<1, 0>>

\* ------------------------------------------- Indexer: claims, continued
\* a readable configuration and a well-formed index without a single
\* posting-list entry: no row, or rows whose posting lists are all empty
EmptyIndex ==
  /\ idx_config = "ok"
  /\ fs_index.exists
  /\ \A i \in DOMAIN fs_index.rows : fs_index.rows[i].ok
  /\ IndexEntries = {}

\* the exceptions of a division by zero and of a logarithm outside its domain
ArithmeticFaults == {"ZeroDivisionError", "ValueError"}

\* C14 (as claimed): on an index without any document occurrence, so that
\* total_documents is 0, calculate_tf_idf never returns normally, and the run
\* ends in an arithmetic fault that the Indexer has logged.
C14_EmptyIndexIsArithmeticFault ==
  EmptyIndex =>
    /\ idx_pc # "write_output"
    /\ (idx_pc = "failed" => idx_exc \in ArithmeticFaults /\ idx_log # {})

\* C18: in every state of process_documents, and after it, each term that has
\* been tallied has a document frequency that is positive and not greater than
\* total_documents.
C18_FrequencyWithinTotal ==
  \A i \in DOMAIN term_document_frequency :
    /\ 0 < term_document_frequency[i].v
    /\ term_document_frequency[i].v <= total_documents

\* C18 witness: in the middle of the scan, two terms tallied with different
\* frequencies, both below the total of 3.
C18_Witness ==
  /\ idx_pc = "scan"
  /\ total_documents = 3
  /\ Has(term_document_frequency, "A")
  /\ Has(term_document_frequency, "B")
  /\ Get(term_document_frequency, "A") = 2
  /\ Get(term_document_frequency, "B") = 1

\* the stage that may follow each stage of SearchEngine.run; "failed" is the
\* exception leaving run, and a new call of run starts again at the top
StageSteps ==
  {<<"idle", "read_configuration">>, <<"done", "read_configuration">>,
   <<"failed", "read_configuration">>,
   <<"read_configuration", "read_model">>, <<"read_configuration", "failed">>,
   <<"read_model", "read_queries">>, <<"read_model", "failed">>,
   <<"read_queries", "process_data">>, <<"read_queries", "failed">>,
   <<"process_data", "write_data">>,
   <<"write_data", "done">>}

\* C19: every step of a SearchEngine run goes from a stage to the next one in
\* the order read configuration, read model, read queries, rank, write
\* results, or out of the run by a failure; the results file is only changed by
\* the write stage, when every query that was read has its ranking, and a step
\* that fails leaves the results file as it was.
C19_StagesInOrderWriteLast ==
  [][/\ <<se_pc, se_pc'>> \in StageSteps
     /\ (fs_results' # fs_results =>
           /\ se_pc = "write_data"
           /\ Keys(results) = Keys(queries)
           /\ results' = results)
     /\ (se_pc' = "failed" => fs_results' = fs_results)]_vars

\* C19 witness: a run that failed in its third stage, on a malformed query row
\* after a model and a query had been read, and the results file is empty.
C19_Witness ==
  /\ se_pc = "failed"
  /\ se_exc = "ValueError"
  /\ model # <<>>
  /\ queries # <<>>
  /\ results = <<>>
  /\ fs_results = <<>>

\* ------------------------------------- one instance, run again and again
\* the caller holds an Indexer or a SearchEngine and calls its run() any
\* number of times, the input files staying as they are
RunInit == IdxInit \/ SEInit

RunNext ==
  \/ module = "Indexer" /\ IdxNext
  \/ module = "SearchEngine" /\ SENext

RunSpec == RunInit /\ [][RunNext]_vars

\* the posting-list entries the current run of the Indexer has read
EntriesRead ==
  {p \in IndexEntries : p[1] < idx_row \/ (p[1] = idx_row /\ p[2] < idx_ent)}

\* the tallies of the Indexer are those of the entries the current run has read
IdxTalliesOfThisRun ==
  /\ total_documents = Cardinality(EntriesRead)
  /\ \A t \in Terms :
       GetOr(term_document_frequency, t, 0) =
         Cardinality({p \in EntriesRead : fs_index.rows[p[1]].term = t})
  /\ \A t \in Terms, d \in 1..MaxDoc :
       GetOr(GetOr(document_terms, d, <<>>), t, 0) =
         Cardinality({p \in EntriesRead :
            fs_index.rows[p[1]].term = t /\ fs_index.rows[p[1]].docs[p[2]] = d})

\* the model of the SearchEngine is the content of the model file
ModelOfThisRun ==
  /\ Keys(model) = FileDocs
  /\ \A i \in DOMAIN model :
       /\ Keys(model[i].v) =
            {fs_model.rows[j].term : j \in {r \in DOMAIN fs_model.rows :
                                             fs_model.rows[r].doc = model[i].k}}
       /\ \A j \in DOMAIN model[i].v :
            model[i].v[j].v = FileWeight(model[i].k, model[i].v[j].k)

\* the queries of the SearchEngine are the content of the query file
QueriesOfThisRun ==
  /\ Keys(queries) = FileQueries
  /\ Len(queries) = Cardinality(FileQueries)
  /\ \A i \in DOMAIN queries : queries[i].v = FileWords(queries[i].k)

\* the collections of the SearchEngine hold what the current run has put in
\* them up to its position, and nothing else
SEDataOfThisRun ==
  /\ se_pc \in {"read_configuration", "read_model"} =>
       model = <<>> /\ queries = <<>>
  /\ se_pc \in {"read_queries", "process_data", "write_data", "done"} =>
       ModelOfThisRun
  /\ se_pc = "read_queries" => queries = <<>>
  /\ se_pc \in {"process_data", "write_data", "done"} => QueriesOfThisRun
  /\ se_pc \notin {"write_data", "done"} => unique_terms = <<>> /\ results = <<>>
  /\ se_pc \in {"write_data", "done"} =>
       /\ Range(unique_terms) = FileTerms
       /\ Keys(results) = FileQueries
       /\ Len(results) = Cardinality(FileQueries)
       /\ \A i \in DOMAIN results :
            /\ Len(results[i].v) = Cardinality(FileDocs)
            /\ {results[i].v[j][1] : j \in DOMAIN results[i].v} = FileDocs
  /\ se_pc = "done" =>
       Len(fs_results) = Cardinality(FileQueries) * Cardinality(FileDocs)
  /\ se_pc = "failed" =>
       /\ Keys(model) \subseteq FileDocs
       /\ Keys(queries) \subseteq FileQueries

\* C15: whatever the number of earlier calls of run on the instance, at every
\* position of a run the tallies of an Indexer and the collections of a
\* SearchEngine hold exactly what a run on a new instance holds there: what
\* this run has read from the unchanged input files, nothing of an earlier run.
C15_RunStartsAfresh ==
  /\ IdxTalliesOfThisRun
  /\ SEDataOfThisRun

\* C15 witness: a SearchEngine whose earlier run wrote the results file has
\* been run again and has ranked its two queries over two documents.
C15_Witness ==
  /\ module = "SearchEngine"
  /\ se_pc = "write_data"
  /\ fs_results # <<>>
  /\ Len(model) = 2
  /\ Len(results) = 2

\* C16 (as claimed): a run of the Indexer or of the SearchEngine that has been
\* ended by an exception has logged an error.
C16_EveryFailureIsLogged ==
  /\ idx_pc = "failed" => idx_log # {}
  /\ se_pc = "failed" => se_log # {}

\* ==================================================== InvertedListGenerator
\* words as they stand in an abstract: lower case, mixed case with a comma,
\* a single letter, an English stop word
RawWords == {"ab", "Cd,", "x", "the"}

XmlRecords == [num : 1..MaxDoc, abstract : SeqUpTo(RawWords, MaxWords)]

\* the InvertedListGenerator alone, on every XML file within the bounds
GenInit ==
  /\ fs_xml \in SeqUpTo(XmlRecords, MaxRecords)
  /\ GenConstructed
  /\ QPIdle
  /\ idx_config = "ok"
  /\ fs_index = NoFile
  /\ fs_model = NoFile
  /\ IdxConstructed
  /\ se_config = "ok"
  /\ fs_queries = NoFile
  /\ fs_results = <<>>
  /\ SEConstructed
  /\ module = "InvertedListGenerator"

\* what no step of the InvertedListGenerator changes
GenEnv ==
  <<module, qp_state, fs_xml, idx_config, fs_model, se_state, input_file, output_file,
    IdxTally, idx_pc, idx_row, idx_ent, IdxCalc, idx_exc, idx_log>>

\* normalize_text, preprocessing.py lines 12-21, on one word: upper case,
\* everything but letters removed, then the word is dropped when it is a
\* single letter or a stop word; a word that is already normalized stays
NormalizeWord(word) ==
  CASE word = "ab" -> <<"AB">>
    [] word = "Cd," -> <<"CD">>
    [] word = "x" -> <<>>
    [] word = "the" -> <<>>
    [] word = "AB" -> <<"AB">>
    [] word = "CD" -> <<"CD">>

RECURSIVE NormalizeText(_)
\* normalize_text followed by text.split(), line 110: the words that are left
NormalizeText(text) ==
  IF text = <<>> THEN <<>>
  ELSE NormalizeWord(text[1]) \o NormalizeText(Tail(text))

RECURSIVE BuildInvertedIndexOncePerRecord(_, _, _)
\* an index that lists a record once per word, however often the word occurs
BuildInvertedIndexOncePerRecord(index, words, record_num) ==
  IF words = <<>> THEN index
  ELSE LET list == GetOr(index, words[1], <<>>)
       IN  BuildInvertedIndexOncePerRecord(
             IF list # <<>> /\ list[Len(list)] = record_num THEN index
             ELSE Put(index, words[1], Append(list, record_num)),
             Tail(words), record_num)

RECURSIVE BuildInvertedIndex(_, _, _)
\* __build_inverted_index, lines 110-114, words being text.split()
BuildInvertedIndex(index, words, record_num) ==
  IF words = <<>> THEN index
  ELSE BuildInvertedIndex(
         Put(index, words[1], Append(GetOr(index, words[1], <<>>), record_num)),
         Tail(words), record_num)

\* run, lines 121-124
GenRun ==
  /\ gen_pc \in {"idle", "done"}
  /\ input_files' = <<>>
  /\ documents' = <<>>
  /\ inverted_index' = <<>>
  /\ gen_pc' = "read_configuration"
  /\ gen_doc' = 0
  /\ UNCHANGED <<GenEnv, fs_index>>

\* __read_configuration, lines 28-35: the LEIA= line names the XML file
GenReadConfiguration ==
  /\ gen_pc = "read_configuration"
  /\ input_files' = Append(input_files, "xml")
  /\ gen_pc' = "read_data"
  /\ UNCHANGED <<GenEnv, fs_index, documents, inverted_index, gen_doc>>

\* __read_data, lines 49-64: every RECORD of every input file, in file order
GenReadData ==
  /\ gen_pc = "read_data"
  /\ documents' = documents \o [i \in DOMAIN fs_xml |-> <<fs_xml[i].num, fs_xml[i].abstract>>]
  /\ gen_pc' = "process_data"
  /\ gen_doc' = 1
  /\ UNCHANGED <<GenEnv, fs_index, input_files, inverted_index>>

\* __process_data, lines 83-85, for one document
GenProcessDocument ==
  /\ gen_pc = "process_data"
  /\ gen_doc <= Len(documents)
  /\ inverted_index' = BuildInvertedIndex(inverted_index,
                                          NormalizeText(documents[gen_doc][2]),
                                          documents[gen_doc][1])
  /\ gen_doc' = gen_doc + 1
  /\ UNCHANGED <<GenEnv, fs_index, input_files, documents, gen_pc>>

\* __process_data returns
GenProcessEnd ==
  /\ gen_pc = "process_data"
  /\ gen_doc > Len(documents)
  /\ gen_pc' = "write_data"
  /\ UNCHANGED <<GenEnv, fs_index, input_files, documents, inverted_index, gen_doc>>

\* __write_data, lines 94-98: one row [word, doc_ids] per word
GenWriteData ==
  /\ gen_pc = "write_data"
  /\ fs_index' = [exists |-> TRUE,
                  rows |-> [i \in DOMAIN inverted_index |->
                              [term |-> inverted_index[i].k,
                               docs |-> inverted_index[i].v,
                               ok |-> TRUE]]]
  /\ gen_pc' = "done"
  /\ UNCHANGED <<GenEnv, input_files, documents, inverted_index, gen_doc>>

GenNext ==
  \/ GenRun
  \/ GenReadConfiguration
  \/ GenReadData
  \/ GenProcessDocument
  \/ GenProcessEnd
  \/ GenWriteData

GenSpec == GenInit /\ [][GenNext]_vars

\* the words that can be left of an abstract
NormalWords == UNION {Range(NormalizeWord(w)) : w \in RawWords}

\* positions <<record, word>> of the XML file, of the records processed so far
WordsProcessed ==
  {p \in (DOMAIN fs_xml) \X (1..MaxWords) :
     p[1] < gen_doc /\ p[2] <= Len(fs_xml[p[1]].abstract)}

\* how often word is left of the abstracts of the processed records numbered
\* record_num
OccurrencesIn(word, record_num) ==
  Cardinality({p \in WordsProcessed :
     /\ fs_xml[p[1]].num = record_num
     /\ NormalizeWord(fs_xml[p[1]].abstract[p[2]]) = <<word>>})

RECURSIVE PostingsInOrder(_, _)
\* the record numbers of the first n documents, in the order of the documents,
\* each as often as word is left of the abstract
PostingsInOrder(word, n) ==
  IF n = 0 THEN <<>>
  ELSE PostingsInOrder(word, n - 1) \o
       [j \in DOMAIN SelectSeq(NormalizeText(documents[n][2]), LAMBDA w : w = word)
          |-> documents[n][1]]

\* C20: when the InvertedListGenerator has processed a sequence of documents,
\* the posting list of every word holds each record number exactly as often
\* as the word occurs in the normalized abstracts of the records with that
\* number; no posting list is empty; and the entries of a posting list follow
\* the order in which the documents were processed.
C20_PostingsCountOccurrences ==
  gen_pc \in {"process_data", "write_data", "done"} =>
    /\ \A w \in NormalWords, d \in 1..MaxDoc :
         Cardinality({j \in DOMAIN GetOr(inverted_index, w, <<>>) :
                        GetOr(inverted_index, w, <<>>)[j] = d})
           = OccurrencesIn(w, d)
    /\ \A i \in DOMAIN inverted_index :
         /\ inverted_index[i].v # <<>>
         /\ inverted_index[i].k \in NormalWords
    /\ \A i \in DOMAIN inverted_index :
         inverted_index[i].v = PostingsInOrder(inverted_index[i].k, gen_doc - 1)

\* C20 witness: record 2 holds AB twice, record 1, processed after it, holds AB
\* and CD; the posting lists are 2, 2, 1 for AB and 1 for CD.
C20_Witness ==
  /\ gen_pc = "done"
  /\ Has(inverted_index, "AB") /\ Get(inverted_index, "AB") = <<2, 2, 1>>
  /\ Has(inverted_index, "CD") /\ Get(inverted_index, "CD") = <<1>>

\* ============================================== Indexer, then SearchEngine
\* the inverted index of the worked example: doc1 holds A twice and B once,
\* doc2 holds A once, doc3 holds B three times
ExampleIndexRows ==
  <<[term |-> "A", docs |-> <<1, 1, 2>>, ok |-> TRUE],
    [term |-> "B", docs |-> <<1, 3, 3, 3>>, ok |-> TRUE]>>

ExampleIndexes ==
  {ExampleIndexRows, <<ExampleIndexRows[2], ExampleIndexRows[1]>>}

\* the index of the worked example and any query file within the bounds
PipeInit ==
  /\ idx_config = "ok"
  /\ fs_index \in [exists : {TRUE}, rows : ExampleIndexes]
  /\ fs_model = NoFile
  /\ IdxConstructed
  /\ se_config = "ok"
  /\ fs_queries \in [exists : {TRUE}, rows : QueryFiles]
  /\ fs_results = <<>>
  /\ SEConstructed
  /\ fs_xml = <<>>
  /\ GenConstructed
  /\ QPIdle
  /\ module = "Indexer, SearchEngine"

\* the model is built by the stages of the Indexer, write_data last; the
\* SearchEngine is run once the model file is written
PipeNext ==
  \/ IdxStages
  \/ IdxReadConfiguration
  \/ IdxOpenIndex
  \/ IdxScanEntry
  \/ IdxNextRow
  \/ IdxScanEnd
  \/ IdxCalcEntry
  \/ IdxCalcEnd
  \/ IdxWriteData
  \/ idx_pc = "persisted" /\ SENext

PipeSpec == PipeInit /\ [][PipeNext]_vars

\* the place of a document in a ranking
PlaceOf(doc, items) == CHOOSE j \in DOMAIN items : items[j][1] = doc

\* C17 (as claimed): in the ranking of a query "A" over the model built from
\* the worked example, doc1 comes before doc2 and before doc3.
C17_ExampleRanksDoc1First ==
  Ranked =>
    \A i \in DOMAIN results :
      Get(queries, results[i].k) = <<"A">> =>
        /\ PlaceOf("1", results[i].v) < PlaceOf("2", results[i].v)
        /\ PlaceOf("1", results[i].v) < PlaceOf("3", results[i].v)

\* C17 (amended): in the ranking of a query "A" over the model built from the
\* worked example, doc2, whose only term is A, comes first with cosine 1; doc1
\* comes second with a cosine between 0.95 and 0.97; doc3 comes last with
\* cosine 0.
C17_ExampleRanksDoc2First ==
  Ranked =>
    \A i \in DOMAIN results :
      Get(queries, results[i].k) = <<"A">> =>
        /\ [j \in DOMAIN results[i].v |-> results[i].v[j][1]] = <<"2", "1", "3">>
        /\ results[i].v[1][2] = [sgn |-> 1, num |-> 1, den |-> 1]
        /\ results[i].v[2][2].sgn = 1
        /\ 9025 * results[i].v[2][2].den < 10000 * results[i].v[2][2].num
        /\ 10000 * results[i].v[2][2].num < 9409 * results[i].v[2][2].den
        /\ results[i].v[3][2] = Zero

\* C17 witness: the Indexer has written the four rows of the model of the
\* worked example, and the SearchEngine has ranked a query "A" over it.
C17_Witness ==
  /\ idx_pc = "persisted"
  /\ Len(fs_model.rows) = 4
  /\ Ranked
  /\ Len(model) = 3
  /\ \E i \in DOMAIN results :
       Get(queries, results[i].k) = <<"A">> /\ Len(results[i].v) = 3

\* the ranking __process_data gives a query that is the only one of its set
RankedAlone(m, query_id, words) ==
  Rank(m, <<[k |-> query_id, v |-> words]>>, BuildUniqueTerms(m))[1].v

\* C21: __process_data leaves the model and the words of every query as they
\* were, and the ranking it stores for a query is the ranking of that query
\* taken alone, whatever the other queries of the set and their order.
C21_RankingReadOnlyPerQuery ==
  [][se_pc = "process_data" =>
       /\ model' = model
       /\ queries' = queries
       /\ Keys(results') = Keys(queries)
       /\ \A i \in DOMAIN results' :
            results'[i].v =
              RankedAlone(model, results'[i].k, Get(queries, results'[i].k))]_vars

\* C21 witness: two queries of different words ranked over two documents, the
\* two rankings being different.
C21_Witness ==
  /\ Ranked
  /\ Len(model) = 2
  /\ Len(results) = 2
  /\ Get(queries, results[1].k) = <<"B", "A", "B", "Z">>
  /\ Get(queries, results[2].k) = <<"A">>
  /\ results[1].v # results[2].v

RECURSIVE SumCounts(_)
\* the sum of the raw counts of document_terms, over every document and term
SumCounts(dt) == IF dt = <<>> THEN 0 ELSE SumValues(dt[1].v) + SumCounts(Tail(dt))

\* C23: after every posting-list entry process_documents has read,
\* total_documents is the number of entries read so far, which is the sum of
\* the raw counts of document_terms and the sum of term_document_frequency;
\* and a document id is a key of document_terms exactly when an entry read so
\* far names it.
C23_OccurrencesConserved ==
  /\ total_documents = Cardinality(EntriesRead)
  /\ total_documents = SumCounts(document_terms)
  /\ total_documents = SumValues(term_document_frequency)
  /\ \A d \in 1..MaxDoc :
       Has(document_terms, d) <=>
         \E p \in EntriesRead : fs_index.rows[p[1]].docs[p[2]] = d

\* C23 witness: in the middle of the scan, three entries read, one document
\* with a raw count of 2 for a term, the other document not yet met.
C23_Witness ==
  /\ idx_pc = "scan"
  /\ total_documents = 3
  /\ Len(document_terms) = 1
  /\ Len(document_terms[1].v) = 2
  /\ document_terms[1].v[1].v = 2
  /\ \E p \in IndexEntries : fs_index.rows[p[1]].docs[p[2]] # document_terms[1].k

\* =========================================================== QueryProcessor
\* the QueryText of a QUERY element, in raw words
QueryRawTexts == {<<"ab">>, <<"the", "Cd,", "ab">>}

\* Item elements: a document number and the score attribute, one digit per
\* judge
ItemVoted == [doc |-> 1, score |-> <<0, 1, 2, 0>>]
ItemUnvoted == [doc |-> 2, score |-> <<0, 0, 0, 0>>]

ItemLists == {<<>>, <<ItemVoted>>, <<ItemVoted, ItemUnvoted>>}

\* QUERY elements; one without a Records element has no item
XmlQueries ==
  {q \in [num : QueryIds, text : QueryRawTexts, has_records : BOOLEAN,
          items : ItemLists] :
     ~q.has_records => q.items = <<>>}

\* the QueryProcessor alone, on every query XML file within the bounds
QPInit ==
  /\ fs_qxml \in SeqUpTo(XmlQueries, MaxQueries)
  /\ fs_expected = <<>>
  /\ QPConstructed
  /\ fs_xml = <<>>
  /\ GenConstructed
  /\ idx_config = "ok"
  /\ fs_index = NoFile
  /\ fs_model = NoFile
  /\ IdxConstructed
  /\ se_config = "ok"
  /\ fs_queries = NoFile
  /\ fs_results = <<>>
  /\ SEConstructed
  /\ module = "QueryProcessor"

\* what no step of the QueryProcessor changes
QPEnv ==
  <<module, fs_qxml, gen_state, idx_state, fs_model, se_config, fs_results,
    SEPaths, SEData, SEVectors, se_pc, se_exc, se_log>>
QPPaths == <<qp_queries_file, output_queries_file, output_expected_file>>

\* line 65: sum(map(lambda x: int(x) > 0, score_str)), the judges who gave
\* more than 0
DocScore(score_str) == Cardinality({i \in DOMAIN score_str : score_str[i] > 0})

RECURSIVE ExpectedOf(_)
\* __read_data, lines 61-67: the tuples appended to self.expected for the
\* QUERY elements of the file
ExpectedOf(xml) ==
  IF xml = <<>> THEN <<>>
  ELSE (IF xml[1].has_records
        THEN [j \in DOMAIN xml[1].items |->
                <<xml[1].num, xml[1].items[j].doc, DocScore(xml[1].items[j].score)>>]
        ELSE <<>>)
       \o ExpectedOf(Tail(xml))

\* __read_data, line 68: the tuples appended to self.queries
QueriesOf(xml) == [i \in DOMAIN xml |-> <<xml[i].num, xml[i].text>>]

\* run, lines 124-125: run() resets nothing
QPRun ==
  /\ qp_pc \in {"idle", "done"}
  /\ qp_runs < MaxRuns
  /\ qp_runs' = qp_runs + 1
  /\ qp_pc' = "read_configuration"
  /\ UNCHANGED <<QPEnv, fs_queries, fs_expected, QPPaths, qp_queries, expected>>

\* __read_configuration, lines 28-37
QPReadConfiguration ==
  /\ qp_pc = "read_configuration"
  /\ qp_queries_file' = "queries.xml"
  /\ output_queries_file' = "queries"
  /\ output_expected_file' = "expected"
  /\ qp_pc' = "read_data"
  /\ UNCHANGED <<QPEnv, fs_queries, fs_expected, qp_queries, expected, qp_runs>>

\* __read_data, lines 51-68: both lists are appended to
QPReadData ==
  /\ qp_pc = "read_data"
  /\ expected' = expected \o ExpectedOf(fs_qxml)
  /\ qp_queries' = qp_queries \o QueriesOf(fs_qxml)
  /\ qp_pc' = "process_data"
  /\ UNCHANGED <<QPEnv, fs_queries, fs_expected, QPPaths, qp_runs>>

\* __process_data, lines 87-92: every text of self.queries is normalized
QPProcessData ==
  /\ qp_pc = "process_data"
  /\ qp_queries' = [i \in DOMAIN qp_queries |->
                      <<qp_queries[i][1], NormalizeText(qp_queries[i][2])>>]
  /\ qp_pc' = "write_data"
  /\ UNCHANGED <<QPEnv, fs_queries, fs_expected, QPPaths, expected, qp_runs>>

\* __write_data, lines 101-112: both files are opened for writing; after the
\* header, one row per tuple of self.queries and of self.expected
QPWriteData ==
  /\ qp_pc = "write_data"
  /\ fs_queries' = [exists |-> TRUE,
                    rows |-> [i \in DOMAIN qp_queries |->
                                [id |-> qp_queries[i][1], text |-> qp_queries[i][2],
                                 ok |-> TRUE]]]
  /\ fs_expected' = [i \in DOMAIN expected |->
                       [query |-> expected[i][1], doc |-> expected[i][2],
                        votes |-> expected[i][3]]]
  /\ qp_pc' = "done"
  /\ UNCHANGED <<QPEnv, QPPaths, qp_queries, expected, qp_runs>>

QPNext ==
  \/ QPRun
  \/ QPReadConfiguration
  \/ QPReadData
  \/ QPProcessData
  \/ QPWriteData

QPSpec == QPInit /\ [][QPNext]_vars

\* the rows a run on a new instance writes in the queries file
FreshQueryRows ==
  [i \in DOMAIN fs_qxml |->
     [id |-> fs_qxml[i].num, text |-> NormalizeText(fs_qxml[i].text), ok |-> TRUE]]

\* the rows a run on a new instance writes in the expected-results file
FreshExpectedRows ==
  [i \in DOMAIN ExpectedOf(fs_qxml) |->
     [query |-> ExpectedOf(fs_qxml)[i][1], doc |-> ExpectedOf(fs_qxml)[i][2],
      votes |-> ExpectedOf(fs_qxml)[i][3]]]

\* C22 (as claimed): whenever a run of the QueryProcessor has ended, the first
\* or a later one on the same instance, the two files hold the rows a single
\* run on a new instance writes.
C22_LaterRunWritesFreshRows ==
  qp_pc = "done" =>
    /\ fs_queries.rows = FreshQueryRows
    /\ fs_expected = FreshExpectedRows

====
